---- MODULE Spec2Model ----
(***************************************************************************)
(* Model of the image scraper server (src/unnamed/part_000): the POST      *)
(* /api/scrape handler with its shared lazily launched browser, the        *)
(* in-page URL resolution and extraction, the desktop/mobile merge and the *)
(* size-probing fan-out.                                                    *)
(*                                                                         *)
(* Strings whose characters the code inspects (startsWith, regular         *)
(* expressions, parseInt, decodeURIComponent) are sequences of one         *)
(* character strings.                                                      *)
(***************************************************************************)
EXTENDS Integers, Sequences, FiniteSets, TLC

VARIABLES
  browser,      \* module-level `let browser` : 0 is null, n > 0 the n-th launched instance
  nLaunch,      \* number of calls of puppeteer.launch so far
  req,          \* per request: the handler's locals, its position and its responses
  pageUrl,      \* extraction: the url handed to page.evaluate
  sources,      \* extraction: the candidate source strings of one <img>
  imageSet,     \* extraction: the in-page Map, in insertion order
  imgWidth,     \* extraction: the width the element's `||` chain of line 94 yields
  xpc,          \* extraction: position
  desktopImages,\* merge: result of the desktop extraction
  mobileImages, \* merge: result of the mobile extraction
  allImages,    \* merge: the handler's Map, in insertion order
  newMobileImages, \* merge: counter of mobile-only additions
  images,       \* merge / probing: Array.from(allImages.values())
  mpc,          \* merge: position
  probe,        \* probing: per index, the state of that async callback
  response,     \* probing: the status and body the handler answers with; status 0 before
  ppc           \* probing: position of the handler around Promise.all

scrapeVars  == <<browser, nLaunch, req>>
extractVars == <<pageUrl, sources, imgWidth, imageSet, xpc>>
mergeVars   == <<desktopImages, mobileImages, allImages, newMobileImages, mpc>>
probeVars   == <<probe, response, ppc>>
notExtract  == <<browser, nLaunch, req, desktopImages, mobileImages, allImages,
                 newMobileImages, images, mpc, probe, response, ppc>>
notMerge    == <<browser, nLaunch, req, pageUrl, sources, imgWidth, imageSet, xpc,
                 probe, response, ppc>>
notProbe    == <<browser, nLaunch, req, pageUrl, sources, imgWidth, imageSet, xpc,
                 desktopImages, mobileImages, allImages, newMobileImages, mpc>>
notScrape   == <<pageUrl, sources, imgWidth, imageSet, xpc, desktopImages, mobileImages,
                 allImages, newMobileImages, images, mpc, probe, response, ppc>>
vars == <<browser, nLaunch, req, pageUrl, sources, imgWidth, imageSet, xpc,
          desktopImages, mobileImages, allImages, newMobileImages, images, mpc,
          probe, response, ppc>>

----------------------------------------------------------------------------
(* Bounds *)

NumRequests == 2

Requests == 1..NumRequests

----------------------------------------------------------------------------
(* Generic helpers *)

Range(s) == {s[i] : i \in DOMAIN s}

StartsWith(s, p) == Len(s) >= Len(p) /\ SubSeq(s, 1, Len(p)) = p

Drop(s, n) == SubSeq(s, n + 1, Len(s))

----------------------------------------------------------------------------
(* The states the other parts of the model rest in while one part runs *)

ScrapeIdle ==
  /\ browser = 0
  /\ nLaunch = 0
  /\ req = <<>>

ExtractIdle ==
  /\ pageUrl = <<>>
  /\ sources = <<>>
  /\ imgWidth = "Natural"
  /\ imageSet = <<>>
  /\ xpc = "off"

MergeIdle ==
  /\ desktopImages = <<>>
  /\ mobileImages = <<>>
  /\ allImages = <<>>
  /\ newMobileImages = 0
  /\ mpc = "off"

ProbeIdle ==
  /\ probe = <<>>
  /\ response = [status |-> 0, images |-> <<>>, count |-> 0]
  /\ ppc = "off"

----------------------------------------------------------------------------
(* POST /api/scrape: the handler, its pages and the shared browser *)

\* req.body.url: the field is absent, the empty string, or a page URL
NoField == "<undefined>"
BodyUrls == {NoField, "", "http://site/"}

\* `!url` of line 178
Falsy(u) == u = NoField \/ u = ""

\* The awaited calls of the try block, lines 189-346, in program order
TrySteps == <<"newPageD", "setViewportD", "setUserAgentD", "gotoD", "waitD",
              "scrollD", "extractD", "closeD",
              "newPageM", "setViewportM", "setUserAgentM", "gotoM", "waitM",
              "scrollM", "extractM", "closeM", "probes">>

\* page.close() of an open page closes it, and Promise.all over callbacks that
\* catch everything (lines 269, 341) does not reject; every other awaited
\* puppeteer call may reject (timeout, navigation error, crashed target).
MayReject(step) == step \notin {"closeD", "closeM", "probes"}

NewRequest ==
  [pc |-> "idle", url |-> NoField, br |-> 0, step |-> 0,
   desktopPage |-> "null", mobilePage |-> "null",
   calledGetBrowser |-> FALSE, probesIssued |-> FALSE,
   responses |-> <<>>]

ScrapeInit ==
  /\ browser = 0
  /\ nLaunch = 0
  /\ req = [r \in Requests |-> NewRequest]

\* A POST /api/scrape arrives with body url u; express calls the handler.
Receive(r, u) ==
  /\ req[r].pc = "idle"
  /\ req' = [req EXCEPT ![r].pc = "start", ![r].url = u]
  /\ UNCHANGED <<browser, nLaunch>>
  /\ UNCHANGED notScrape

\* getBrowser(), lines 27-31, up to its first suspension: with the variable
\* null it calls puppeteer.launch and waits; otherwise it returns the variable.
GetBrowserCall(r) ==
  IF browser = 0
    THEN /\ nLaunch' = nLaunch + 1
         /\ req' = [req EXCEPT ![r].pc = "launching", ![r].calledGetBrowser = TRUE]
         /\ UNCHANGED browser
    ELSE /\ req' = [req EXCEPT ![r].pc = "try", ![r].br = browser,
                               ![r].step = 1, ![r].calledGetBrowser = TRUE]
         /\ UNCHANGED <<browser, nLaunch>>

\* A handler that goes on to the browser without answering the missing url
MutRejectMissing(r) ==
  /\ req' = [req EXCEPT ![r].pc = "try", ![r].step = 1, ![r].br = browser,
                        ![r].calledGetBrowser = TRUE]
  /\ UNCHANGED <<browser, nLaunch>>

\* Line 179: the 400 answer, and the handler returns
RejectMissing(r) ==
  /\ req' = [req EXCEPT ![r].pc = "done",
                        ![r].responses = Append(@, 400)]
  /\ UNCHANGED <<browser, nLaunch>>

\* Lines 172-184: the input check, then the call of getBrowser.
Start(r) ==
  /\ req[r].pc = "start"
  /\ IF Falsy(req[r].url) THEN RejectMissing(r) ELSE GetBrowserCall(r)
  /\ UNCHANGED notScrape

\* puppeteer.launch settles (line 31): on success the module variable is
\* overwritten with the new instance and getBrowser returns it.
LaunchSettle(r, ok) ==
  /\ req[r].pc = "launching"
  /\ IF ok
       THEN /\ browser' = nLaunch
            /\ req' = [req EXCEPT ![r].pc = "try", ![r].br = nLaunch, ![r].step = 1]
       ELSE /\ req' = [req EXCEPT ![r].pc = "catch"]
            /\ UNCHANGED browser
  /\ UNCHANGED nLaunch
  /\ UNCHANGED notScrape

\* What a fulfilled step of the try block does to the handler's locals
StepEffect(q, step) ==
  CASE step = "newPageD" -> [q EXCEPT !.desktopPage = "open"]
    [] step = "closeD"   -> [q EXCEPT !.desktopPage = "closed"]
    [] step = "newPageM" -> [q EXCEPT !.mobilePage = "open"]
    [] step = "closeM"   -> [q EXCEPT !.mobilePage = "closed"]
    [] step = "probes"   -> [q EXCEPT !.probesIssued = TRUE]
    [] OTHER             -> q

\* One awaited call of lines 189-346 settles. Fulfilled: its effect, then the
\* next call, and after the last one res.json of line 351. Rejected: control
\* passes to the catch block of line 353.
StepSettle(r, ok) ==
  /\ req[r].pc = "try"
  /\ LET step == TrySteps[req[r].step]
         q    == StepEffect(req[r], step)
     IN IF ok
          THEN req' = [req EXCEPT ![r] =
                 IF req[r].step = Len(TrySteps)
                   THEN [q EXCEPT !.pc = "done", !.responses = Append(@, 200)]
                   ELSE [q EXCEPT !.step = @ + 1]]
          ELSE /\ MayReject(step)
               /\ req' = [req EXCEPT ![r].pc = "catch"]
  /\ UNCHANGED <<browser, nLaunch>>
  /\ UNCHANGED notScrape

\* Line 355: `if (desktopPage) await desktopPage.close()`. The handle stays
\* non-null after line 220 closed the page; puppeteer's close() of a page
\* that is already closed rejects ("Protocol error: Connection closed. Most
\* likely the page has been closed"); a build whose close() tolerates it
\* resolves. A rejection here leaves the async handler rejected: lines
\* 356-357 do not run.
CatchDesktop(r, rejects) ==
  /\ req[r].pc = "catch"
  /\ req' = [req EXCEPT ![r] =
       CASE req[r].desktopPage = "null" -> [@ EXCEPT !.pc = "catchMobile"]
         [] req[r].desktopPage = "open" ->
              [@ EXCEPT !.pc = "catchMobile", !.desktopPage = "closed"]
         [] OTHER ->
              IF rejects THEN [@ EXCEPT !.pc = "rejected"]
                         ELSE [@ EXCEPT !.pc = "catchMobile"]]
  /\ UNCHANGED <<browser, nLaunch>>
  /\ UNCHANGED notScrape

\* Lines 356-357: close the mobile page if there is one, then answer 500.
CatchMobile(r) ==
  /\ req[r].pc = "catchMobile"
  /\ req' = [req EXCEPT ![r] =
       [@ EXCEPT !.pc = "done",
                 !.mobilePage = IF @ = "open" THEN "closed" ELSE @,
                 !.responses = Append(@, 500)]]
  /\ UNCHANGED <<browser, nLaunch>>
  /\ UNCHANGED notScrape

Next ==
  \/ \E r \in Requests, u \in BodyUrls : Receive(r, u)
  \/ \E r \in Requests : Start(r)
  \/ \E r \in Requests, ok \in BOOLEAN : LaunchSettle(r, ok)
  \/ \E r \in Requests, ok \in BOOLEAN : StepSettle(r, ok)
  \/ \E r \in Requests, rejects \in BOOLEAN : CatchDesktop(r, rejects)
  \/ \E r \in Requests : CatchMobile(r)

Init ==
  /\ ScrapeInit
  /\ ExtractIdle
  /\ MergeIdle
  /\ images = <<>>
  /\ ProbeIdle

Spec == Init /\ [][Next]_vars

\* The handler has ended: it returned, or its promise rejected.
Ended(r) == req[r].pc \in {"done", "rejected"}

----------------------------------------------------------------------------
(* Properties of the handler *)

OpenPages(r) == {p \in {"desktopPage", "mobilePage"} : req[r][p] = "open"}

\* C3: when a request has ended, on the success path or the failure path,
\* no page it opened is still open.
C3_PagesClosedAtEnd ==
  \A r \in Requests : Ended(r) => OpenPages(r) = {}

\* C7: puppeteer.launch runs at most once, and all requests that obtained a
\* browser hold the same instance.
C7_SingleBrowser ==
  /\ nLaunch <= 1
  /\ \A r, s \in Requests : (req[r].br # 0 /\ req[s].br # 0) => req[r].br = req[s].br

\* C8: a request whose url field is missing or empty is answered 400 and
\* nothing else, without calling getBrowser, opening a page or probing.
C8_MissingUrlRejected ==
  \A r \in Requests :
    (req[r].pc # "idle" /\ Falsy(req[r].url)) =>
      /\ req[r].pc \in {"start", "done"}
      /\ req[r].pc = "done" => req[r].responses = <<400>>
      /\ ~req[r].calledGetBrowser
      /\ req[r].br = 0
      /\ req[r].desktopPage = "null" /\ req[r].mobilePage = "null"
      /\ ~req[r].probesIssued

\* C8 witness: a request without url was answered while another request had
\* launched the browser and opened a page.
C8_Witness ==
  \E r, s \in Requests :
    /\ Falsy(req[r].url) /\ req[r].pc = "done" /\ req[r].responses = <<400>>
    /\ req[s].desktopPage = "open" /\ browser # 0

\* C10: a request whose handler has ended received exactly one response.
C10_ExactlyOneResponse ==
  \A r \in Requests : Ended(r) => Len(req[r].responses) = 1

----------------------------------------------------------------------------
(* extractImagesFromPage: resolveUrl and the <img> loop, lines 52-101, 163 *)

MaxSources == 2

Letters == {"a", "b", "c", "d", "f", "h", "l", "o", "p", "s", "t"}

IndexFrom(s, ch, from) ==
  IF \E i \in from..Len(s) : s[i] = ch
    THEN CHOOSE i \in from..Len(s) : s[i] = ch /\ \A j \in from..(i - 1) : s[j] # ch
    ELSE 0

LastIndex(s, ch) ==
  IF \E i \in 1..Len(s) : s[i] = ch
    THEN CHOOSE i \in 1..Len(s) : s[i] = ch /\ \A j \in (i + 1)..Len(s) : s[j] # ch
    ELSE 0

\* The urls a page is scraped at: "https://h/d/p" and "http://h/p"
PageUrls == {<<"h", "t", "t", "p", "s", ":", "/", "/", "h", "/", "d", "/", "p">>, <<"h", "t", "t", "p", ":", "/", "/", "h", "/", "p">>}

\* Candidate source strings of an element, as found in src, data-src, srcset
SrcData     == <<"d", "a", "t", "a", ":", "a">>
SrcHttp     == <<"h", "t", "t", "p", ":", "/", "/", "c", "/", "a">>
SrcHttps    == <<"h", "t", "t", "p", "s", ":", "/", "/", "c", "/", "a">>
SrcProtoRel == <<"/", "/", "c", "/", "a">>
SrcRootRel  == <<"/", "a">>
SrcRel      == <<"a">>
SrcRelDir   == <<"b", "/", "a">>
SrcHttpd    == <<"h", "t", "t", "p", "d", "/", "a">>
SrcFtp      == <<"f", "t", "p", ":", "/", "/", "c", "/", "a">>
SrcFtpBad   == <<"f", "t", "p", ":", "/", "/", "^">>
SrcBlob     == <<"b", "l", "o", "b", ":", "a">>

Candidates == {SrcData, SrcHttp, SrcHttps, SrcProtoRel, SrcRootRel, SrcRel,
               SrcRelDir, SrcHttpd, SrcFtp, SrcFtpBad, SrcBlob}

\* baseUrl.origin of line 54: scheme, "://" and host of the page url
Origin(u) ==
  LET c == IndexFrom(u, ":", 1)
      e == IndexFrom(u, "/", c + 3)
  IN IF e = 0 THEN u ELSE SubSeq(u, 1, e - 1)

\* A string that starts with a URL scheme: letters, then ":"
HasScheme(s) ==
  LET c == IndexFrom(s, ":", 1)
  IN c > 1 /\ \A i \in 1..(c - 1) : s[i] \in Letters

SchemeOf(s) == SubSeq(s, 1, IndexFrom(s, ":", 1) - 1)

SpecialSchemes == {<<"h", "t", "t", "p">>, <<"h", "t", "t", "p", "s">>, <<"f", "t", "p">>}

\* The host of an absolute URL with "//" after the scheme
HostOf(s) ==
  LET c == IndexFrom(s, ":", 1)
      e == IndexFrom(s, "/", c + 3)
  IN SubSeq(s, c + 3, IF e = 0 THEN Len(s) ELSE e - 1)

ForbiddenHostChars == {"^", " ", "[", "]", "<", ">", "|"}

\* new URL(src, base) throws a TypeError: a special scheme whose host is
\* empty or holds a forbidden host code point
URLThrows(src) ==
  /\ HasScheme(src)
  /\ SchemeOf(src) \in SpecialSchemes
  /\ LET h == HostOf(src)
     IN h = <<>> \/ \E i \in 1..Len(h) : h[i] \in ForbiddenHostChars

\* new URL(src, base).href for a src that parses: a src with a scheme is
\* absolute and kept; any other src (without "./", "../", "?" or "#", which
\* Candidates does not hold) replaces the last path segment of the base.
URLHref(src, base) ==
  IF HasScheme(src) THEN src
  ELSE SubSeq(base, 1, LastIndex(base, "/")) \o src

\* resolveUrl, lines 56-66
resolveUrl(src, base) ==
  IF src = <<>> \/ StartsWith(src, <<"d", "a", "t", "a", ":">>) THEN src
  ELSE IF StartsWith(src, <<"h", "t", "t", "p">>) THEN src
  ELSE IF StartsWith(src, <<"/", "/">>) THEN <<"h", "t", "t", "p", "s", ":">> \o src
  ELSE IF StartsWith(src, <<"/">>) THEN Origin(base) \o src
  ELSE IF URLThrows(src) THEN src
  ELSE URLHref(src, base)

MapHas(m, k) == \E i \in 1..Len(m) : m[i].url = k

\* The sources.forEach of lines 88-100 for one <img> whose width resolves to
\* w: a resolved url that is truthy and not yet a key is inserted.
RECURSIVE ImgForEach(_, _, _, _)
ImgForEach(m, srcs, base, w) ==
  IF srcs = <<>> THEN m
  ELSE LET fullUrl == resolveUrl(Head(srcs), base)
           m2 == IF fullUrl # <<>> /\ ~MapHas(m, fullUrl)
                   THEN Append(m, [url |-> fullUrl, width |-> w, type |-> "img"])
                   ELSE m
       IN ImgForEach(m2, Tail(srcs), base, w)

\* Lines 163-167: the px suffix on numeric dimensions
WithPx(rec) ==
  [rec EXCEPT !.width = IF @ = "Natural" THEN "Natural" ELSE @ \o "px"]

SourceLists == UNION {[1..n -> Candidates] : n \in 1..MaxSources}

ExtractInit ==
  /\ pageUrl \in PageUrls
  /\ sources \in SourceLists
  /\ imgWidth \in {"Natural", "10"}
  /\ imageSet = <<>>
  /\ xpc = "img"

\* The <img> loop of one element
ExtractImg ==
  /\ xpc = "img"
  /\ imageSet' = ImgForEach(imageSet, sources, pageUrl, imgWidth)
  /\ xpc' = "collected"
  /\ UNCHANGED <<pageUrl, sources, imgWidth>>
  /\ UNCHANGED notExtract

\* Line 163: the records are returned with their dimensions formatted
ExtractReturn ==
  /\ xpc = "collected"
  /\ imageSet' = [i \in 1..Len(imageSet) |-> WithPx(imageSet[i])]
  /\ xpc' = "returned"
  /\ UNCHANGED <<pageUrl, sources, imgWidth>>
  /\ UNCHANGED notExtract

InitExtract ==
  /\ ScrapeIdle
  /\ ExtractInit
  /\ MergeIdle
  /\ images = <<>>
  /\ ProbeIdle

NextExtract ==
  \/ ExtractImg
  \/ ExtractReturn

SpecExtract == InitExtract /\ [][NextExtract]_vars

----------------------------------------------------------------------------
(* Properties of resolveUrl *)

IsDataUri(u) == StartsWith(u, <<"d", "a", "t", "a", ":">>)

IsAbsoluteHttp(u) ==
  \/ Len(u) > 7 /\ StartsWith(u, <<"h", "t", "t", "p", ":", "/", "/">>)
  \/ Len(u) > 8 /\ StartsWith(u, <<"h", "t", "t", "p", "s", ":", "/", "/">>)

\* C9: every url stored in a record is an absolute http(s) URL or a data:
\* URI, never a bare relative path.
C9_ResolvedAbsolute ==
  xpc # "img" =>
    \A i \in 1..Len(imageSet) :
      IsDataUri(imageSet[i].url) \/ IsAbsoluteHttp(imageSet[i].url)

----------------------------------------------------------------------------
(* The desktop/mobile merge of the handler, lines 185, 217-218, 252-263 *)

MaxImages == 2

\* Resolved urls, compared as Map keys only
Urls == {"https://h/a.png", "https://h/b.png", "https://h/c.png"}

\* What a record carries besides its url, for the desktop and mobile layout
DesktopFields == {[width |-> "100px", height |-> "80px", alt |-> "Logo", type |-> "img"],
                  [width |-> "Natural", height |-> "Natural",
                   alt |-> "Picture/video source", type |-> "source"]}
MobileFields  == {[width |-> "50px", height |-> "40px", alt |-> "No alt text", type |-> "img"],
                  [width |-> "Natural", height |-> "Natural",
                   alt |-> "Picture/video source", type |-> "source"]}

MkImage(u, f) ==
  [url |-> u, width |-> f.width, height |-> f.height, alt |-> f.alt, type |-> f.type]

\* The results extractImagesFromPage can return: records with distinct urls
\* (they are the values of a Map keyed by url, line 163)
ExtractionResults(fields) ==
  UNION {{[i \in 1..n |-> MkImage(us[i], fs[i])] :
            us \in {x \in [1..n -> Urls] : \A i, j \in 1..n : i # j => x[i] # x[j]},
            fs \in [1..n -> fields]} : n \in 0..MaxImages}

\* Map.prototype.set on a Map kept in insertion order: an existing key keeps
\* its position and takes the new value
MapSet(m, rec) ==
  IF MapHas(m, rec.url)
    THEN [i \in 1..Len(m) |-> IF m[i].url = rec.url THEN rec ELSE m[i]]
    ELSE Append(m, rec)

\* Line 218: desktopImages.forEach(img => allImages.set(img.url, img))
RECURSIVE DesktopForEach(_, _)
DesktopForEach(m, imgs) ==
  IF imgs = <<>> THEN m
  ELSE DesktopForEach(MapSet(m, Head(imgs)), Tail(imgs))

\* A merge in which the later pass overwrites
RECURSIVE MutMobileForEach(_, _)
MutMobileForEach(st, imgs) ==
  IF imgs = <<>> THEN st
  ELSE MutMobileForEach([map |-> MapSet(st.map, Head(imgs)), n |-> st.n + 1], Tail(imgs))

\* Lines 254-259: a mobile record is set only when its url is not a key yet
RECURSIVE MobileForEach(_, _)
MobileForEach(st, imgs) ==
  IF imgs = <<>> THEN st
  ELSE MobileForEach(
         IF ~MapHas(st.map, Head(imgs).url)
           THEN [map |-> MapSet(st.map, Head(imgs)), n |-> st.n + 1]
           ELSE st,
         Tail(imgs))

MergeInit ==
  /\ desktopImages \in ExtractionResults(DesktopFields)
  /\ mobileImages \in ExtractionResults(MobileFields)
  /\ allImages = <<>>
  /\ newMobileImages = 0
  /\ mpc = "desktop"

\* Lines 217-218: the desktop records enter the empty Map
DesktopInsert ==
  /\ mpc = "desktop"
  /\ allImages' = DesktopForEach(allImages, desktopImages)
  /\ mpc' = "mobile"
  /\ UNCHANGED <<desktopImages, mobileImages, newMobileImages, images>>
  /\ UNCHANGED notMerge

\* Lines 252-259: the mobile records are merged in
MobileMerge ==
  /\ mpc = "mobile"
  /\ LET st == MobileForEach([map |-> allImages, n |-> 0], mobileImages)
     IN /\ allImages' = st.map
        /\ newMobileImages' = st.n
  /\ mpc' = "merged"
  /\ UNCHANGED <<desktopImages, mobileImages, images>>
  /\ UNCHANGED notMerge

\* Line 263: const images = Array.from(allImages.values())
ImagesArray ==
  /\ mpc = "merged"
  /\ images' = allImages
  /\ mpc' = "array"
  /\ UNCHANGED <<desktopImages, mobileImages, allImages, newMobileImages>>
  /\ UNCHANGED notMerge

InitMerge ==
  /\ ScrapeIdle
  /\ ExtractIdle
  /\ MergeInit
  /\ images = <<>>
  /\ ProbeIdle

NextMerge ==
  \/ DesktopInsert
  \/ MobileMerge
  \/ ImagesArray

SpecMerge == InitMerge /\ [][NextMerge]_vars

----------------------------------------------------------------------------
(* Properties of the merge *)

UrlsOf(imgs) == {imgs[i].url : i \in 1..Len(imgs)}

\* C2: the merged array holds exactly one record per distinct url of the
\* union of both results; a url of the desktop result keeps the desktop
\* record, and a mobile record is present only for a url the desktop result
\* lacks.
C2_MergeKeepsDesktop ==
  mpc = "array" =>
    /\ UrlsOf(images) = UrlsOf(desktopImages) \cup UrlsOf(mobileImages)
    /\ \A i, j \in 1..Len(images) : i # j => images[i].url # images[j].url
    /\ \A i \in 1..Len(desktopImages) : desktopImages[i] \in Range(images)
    /\ \A j \in 1..Len(mobileImages) :
         IF mobileImages[j].url \in UrlsOf(desktopImages)
           THEN \A i \in 1..Len(images) :
                  images[i].url = mobileImages[j].url => images[i] \in Range(desktopImages)
           ELSE mobileImages[j] \in Range(images)

\* C2 witness: a merged array where one url came from both passes with
\* different fields, and another url from the mobile pass alone.
C2_Witness ==
  /\ mpc = "array"
  /\ \E i \in 1..Len(desktopImages), j \in 1..Len(mobileImages) :
       /\ desktopImages[i].url = mobileImages[j].url
       /\ desktopImages[i] # mobileImages[j]
  /\ \E j \in 1..Len(mobileImages) : mobileImages[j].url \notin UrlsOf(desktopImages)
  /\ newMobileImages = 1

----------------------------------------------------------------------------
(* The size-probing fan-out of the handler, lines 267-351 *)

MaxBatch == 2

\* 1024 * 1024 of line 338
MB == 1024 * 1024

\* The urls of a batch: two fetched over the network, and data: URIs with a
\* base64 payload, a percent-encoded payload, a payload with a malformed
\* escape, and no payload at all
UrlNetA       == <<"h", "t", "t", "p", ":", "/", "/", "h", "/", "a">>
UrlNetB       == <<"h", "t", "t", "p", ":", "/", "/", "h", "/", "b">>
UrlDataBase64 == <<"d", "a", "t", "a", ":", "t", ";", "b", "a", "s", "e", "6", "4", ",", "Q", "U", "J", "D">>
UrlDataPlain  == <<"d", "a", "t", "a", ":", "t", ",", "a", "%", "2", "0", "b">>
UrlDataBadEsc == <<"d", "a", "t", "a", ":", "t", ",", "%", "z", "z">>
UrlDataBare   == <<"d", "a", "t", "a", ":", "t">>

ProbeUrls == {UrlNetA, UrlNetB, UrlDataBase64, UrlDataPlain, UrlDataBadEsc, UrlDataBare}

Digits == <<"0", "1", "2", "3", "4", "5", "6", "7", "8", "9">>

DigitValue(ch) == (CHOOSE i \in 1..Len(Digits) : Digits[i] = ch) - 1

IsDigit(ch) == ch \in Range(Digits)

\* parseInt of line 301: the leading decimal digits; without any, NaN,
\* written here as a negative number
RECURSIVE ParseDigits(_, _)
ParseDigits(s, acc) ==
  IF s = <<>> \/ ~IsDigit(Head(s)) THEN acc
  ELSE ParseDigits(Tail(s), acc * 10 + DigitValue(Head(s)))

parseInt(s) ==
  IF s = <<>> \/ ~IsDigit(Head(s)) THEN 0 - 1 ELSE ParseDigits(s, 0)

HexDigits == Range(Digits) \cup {"a", "b", "c", "d", "e", "f", "A", "B", "C", "D", "E", "F"}

\* decodeURIComponent(s).length of line 281, or a negative number when it
\* throws URIError: "%" must be followed by two hex digits; an escape of
\* 0x80 and above needs a UTF-8 sequence, which no url of ProbeUrls holds.
RECURSIVE DecodedLength(_)
DecodedLength(s) ==
  IF s = <<>> THEN 0
  ELSE IF Head(s) # "%"
    THEN LET rest == DecodedLength(Tail(s))
         IN IF rest < 0 THEN rest ELSE rest + 1
  ELSE IF Len(s) >= 3 /\ s[2] \in HexDigits /\ s[3] \in HexDigits
          /\ s[2] \in {"0", "1", "2", "3", "4", "5", "6", "7"}
    THEN LET rest == DecodedLength(Drop(s, 3))
         IN IF rest < 0 THEN rest ELSE rest + 1
  ELSE 0 - 1

\* /^data:([^;]+);base64,(.+)$/ of line 274: the payload, or <<>> without a
\* match (a matching payload is never empty)
Base64Payload(u) ==
  LET semi == IndexFrom(u, ";", 6)
  IN IF StartsWith(u, <<"d", "a", "t", "a", ":">>) /\ semi > 6 /\ StartsWith(Drop(u, semi - 1), <<";", "b", "a", "s", "e", "6", "4", ",">>)
         /\ Len(u) > semi + 7
       THEN Drop(u, semi + 7)
       ELSE <<>>

\* /^data:([^,]+),(.+)$/ of line 279: the payload, or <<>> without a match
PlainPayload(u) ==
  LET comma == IndexFrom(u, ",", 6)
  IN IF StartsWith(u, <<"d", "a", "t", "a", ":">>) /\ comma > 6 /\ Len(u) > comma
       THEN Drop(u, comma)
       ELSE <<>>

\* Math.ceil((base64Data.length * 3) / 4) of line 277
Base64Size(payload) == (Len(payload) * 3 + 3) \div 4

\* Number.prototype.toFixed(2) of num / den: the hundredths nearest to the
\* quotient, the larger of two equally near
ToFixed2(num, den) ==
  LET h == (num * 200 + den) \div (2 * den)
      frac == h % 100
  IN ToString(h \div 100) \o "." \o (IF frac < 10 THEN "0" ELSE "") \o ToString(frac)

\* Lines 333-338: the display of a non-zero size
FormatSize(bytes) ==
  IF bytes > MB THEN ToFixed2(bytes, MB) \o " MB" ELSE ToFixed2(bytes, 1024) \o " KB"

NoHttp == [kind |-> "none", status |-> 0, hasCL |-> FALSE, cl |-> <<>>, byteLength |-> 0]

NewProbe ==
  [pc |-> "new", nHead |-> 0, nGet |-> 0, head |-> NoHttp, get |-> NoHttp,
   caught |-> FALSE, fileSize |-> "", fileSizeBytes |-> 0]

\* A callback that lets its error escape to Promise.all
MutProbeCatch(p) ==
  [p EXCEPT !.pc = "rejected", !.caught = TRUE]

\* Lines 341-344: the catch of one callback
ProbeCatch(p) ==
  [p EXCEPT !.pc = "done", !.caught = TRUE, !.fileSize = "Unknown", !.fileSizeBytes = 0]

\* Lines 329-340: the record returned for sizeInBytes
ProbeReturn(p, sizeInBytes) ==
  IF sizeInBytes = 0
    THEN [p EXCEPT !.pc = "done", !.fileSize = "Unknown", !.fileSizeBytes = 0]
    ELSE [p EXCEPT !.pc = "done", !.fileSize = FormatSize(sizeInBytes),
                   !.fileSizeBytes = sizeInBytes]

\* Lines 273-283: a data: URI is sized without a request
ProbeDataUri(p, u) ==
  IF Base64Payload(u) # <<>> THEN ProbeReturn(p, Base64Size(Base64Payload(u)))
  ELSE IF PlainPayload(u) # <<>>
    THEN IF DecodedLength(PlainPayload(u)) < 0 THEN ProbeCatch(p)
         ELSE ProbeReturn(p, DecodedLength(PlainPayload(u)))
  ELSE ProbeReturn(p, 0)

\* One callback of line 268 up to its first await: a data: URI is finished,
\* any other url has its HEAD request issued (line 287)
ProbeBegin(u) ==
  IF StartsWith(u, <<"d", "a", "t", "a", ":">>) THEN ProbeDataUri(NewProbe, u)
  ELSE [NewProbe EXCEPT !.pc = "head", !.nHead = @ + 1]

\* What the network can answer to a HEAD: no answer (error, timeout), or a
\* status with or without a content-length of decimal digits
HeadOutcomes ==
  {[kind |-> "error", status |-> 0, hasCL |-> FALSE, cl |-> <<>>, byteLength |-> 0]}
  \cup {[kind |-> "response", status |-> st, hasCL |-> FALSE, cl |-> <<>>, byteLength |-> 0] :
          st \in {200, 404, 500}}
  \cup {[kind |-> "response", status |-> st, hasCL |-> TRUE, cl |-> c, byteLength |-> 0] :
          st \in {200, 404}, c \in {<<"0">>, <<"1", "0", "4", "8", "5", "7", "5">>, <<"1", "0", "4", "8", "5", "7", "6">>, <<"1", "0", "4", "8", "5", "7", "7">>}}

\* What the network can answer to a GET: no answer, or a status and a body
GetOutcomes ==
  {[kind |-> "error", status |-> 0, hasCL |-> FALSE, cl |-> <<>>, byteLength |-> 0]}
  \cup {[kind |-> "response", status |-> st, hasCL |-> FALSE, cl |-> <<>>, byteLength |-> 0] :
          st \in {404, 500}}
  \cup {[kind |-> "response", status |-> 200, hasCL |-> FALSE, cl |-> <<>>, byteLength |-> n] :
          n \in {0, MB, 2 * MB}}

\* axios with validateStatus: status < 500 (lines 290, 312): the promise
\* rejects without an answer and on a status of 500 and above
AxiosSettle(out) ==
  IF out.kind = "error" \/ out.status >= 500 THEN [out EXCEPT !.kind = "threw"] ELSE out

\* A check of the header alone, whatever the status
MutHeadUsable(res) ==
  res.kind = "response" /\ res.hasCL /\ res.cl # <<>>

\* Line 300: response.status === 200 && response.headers['content-length']
HeadUsable(res) ==
  res.kind = "response" /\ res.status = 200 /\ res.hasCL /\ res.cl # <<>>

ProbeInit ==
  /\ images \in UNION {{[i \in 1..n |-> [url |-> us[i], type |-> "img"]] :
        us \in {x \in [1..n -> ProbeUrls] : \A i, j \in 1..n : i # j => x[i] # x[j]}} :
        n \in 0..MaxBatch}
  /\ probe = [i \in 1..Len(images) |-> NewProbe]
  /\ response = [status |-> 0, images |-> <<>>, count |-> 0]
  /\ ppc = "map"

\* Lines 267-268: images.map calls every callback in index order; each runs
\* to its first await.
FanOut ==
  /\ ppc = "map"
  /\ probe' = [i \in 1..Len(images) |-> ProbeBegin(images[i].url)]
  /\ ppc' = "join"
  /\ UNCHANGED <<images, response>>
  /\ UNCHANGED notProbe

\* Lines 287-326: the HEAD of callback i settles. A usable answer gives the
\* size; anything else enters the catch of line 306, which issues the GET.
HeadSettle(i, out) ==
  /\ ppc = "join"
  /\ i \in 1..Len(images)
  /\ probe[i].pc = "head"
  /\ LET res == AxiosSettle(out)
         p   == [probe[i] EXCEPT !.head = res]
     IN probe' = [probe EXCEPT ![i] =
          IF HeadUsable(res) THEN ProbeReturn(p, parseInt(res.cl))
          ELSE [p EXCEPT !.pc = "get", !.nGet = @ + 1]]
  /\ UNCHANGED <<images, response, ppc>>
  /\ UNCHANGED notProbe

\* Lines 308-344: the GET of callback i settles. A rejection reaches the
\* catch of line 341; status 200 gives the body's length; any other status
\* leaves sizeInBytes at 0.
GetSettle(i, out) ==
  /\ ppc = "join"
  /\ i \in 1..Len(images)
  /\ probe[i].pc = "get"
  /\ LET res == AxiosSettle(out)
         p   == [probe[i] EXCEPT !.get = res]
     IN probe' = [probe EXCEPT ![i] =
          IF res.kind = "threw" THEN ProbeCatch(p)
          ELSE IF res.status = 200 THEN ProbeReturn(p, res.byteLength)
          ELSE ProbeReturn(p, 0)]
  /\ UNCHANGED <<images, response, ppc>>
  /\ UNCHANGED notProbe

SizedRecord(i) ==
  [url |-> images[i].url, type |-> images[i].type,
   fileSize |-> probe[i].fileSize, fileSizeBytes |-> probe[i].fileSizeBytes]

\* Promise.all of line 267 settles: it rejects as soon as a callback has
\* rejected, and the catch of line 353 answers 500; it fulfils when every
\* callback has returned, with the records in index order, and line 351
\* answers with them.
BatchJoin ==
  /\ ppc = "join"
  /\ IF \E i \in 1..Len(images) : probe[i].pc = "rejected"
       THEN response' = [status |-> 500, images |-> <<>>, count |-> 0]
       ELSE /\ \A i \in 1..Len(images) : probe[i].pc = "done"
            /\ response' = [status |-> 200,
                            images |-> [i \in 1..Len(images) |-> SizedRecord(i)],
                            count |-> Len(images)]
  /\ ppc' = "responded"
  /\ UNCHANGED <<images, probe>>
  /\ UNCHANGED notProbe

InitProbe ==
  /\ ScrapeIdle
  /\ ExtractIdle
  /\ MergeIdle
  /\ ProbeInit

NextProbe ==
  \/ FanOut
  \/ \E i \in 1..MaxBatch, out \in HeadOutcomes : HeadSettle(i, out)
  \/ \E i \in 1..MaxBatch, out \in GetOutcomes : GetSettle(i, out)
  \/ BatchJoin

SpecProbe == InitProbe /\ [][NextProbe]_vars

----------------------------------------------------------------------------
(* Properties of the size probing *)

Probes == 1..Len(probe)

IsNetUrl(i) == ~StartsWith(images[i].url, <<"d", "a", "t", "a", ":">>)

\* The GET of probe i was issued and threw or returned a status other than 200
GetFailed(i) ==
  probe[i].get.kind = "threw" \/ (probe[i].get.kind = "response" /\ probe[i].get.status # 200)

\* The size of record i could not be determined: a data: URI without a
\* decodable payload, or a HEAD without usable answer followed by a failed GET
ProbeFailed(i) ==
  IF IsNetUrl(i) THEN GetFailed(i)
  ELSE images[i].url \in {UrlDataBadEsc, UrlDataBare}

MarkedUnknown(rec) == rec.fileSizeBytes = 0 /\ rec.fileSize = "Unknown"

\* C1: whatever subset of the probes fails, and in whatever order they
\* settle, no callback rejects and the request is never answered 500; the
\* answer holds one record per input record in input order, a failed probe's
\* record marked 0 / "Unknown" and every other record carrying the size its
\* own probe found.
C1_BatchComplete ==
  /\ \A i \in Probes : probe[i].pc # "rejected"
  /\ response.status # 500
  /\ ppc = "responded" =>
       /\ response.status = 200
       /\ response.count = Len(images)
       /\ Len(response.images) = Len(images)
       /\ \A i \in 1..Len(images) :
            LET rec == response.images[i]
            IN /\ rec.url = images[i].url
               /\ ProbeFailed(i) => MarkedUnknown(rec)
               /\ images[i].url \in {UrlDataBase64, UrlDataPlain} => rec.fileSizeBytes = 3
               /\ (IsNetUrl(i) /\ probe[i].nGet = 0) =>
                    rec.fileSizeBytes = parseInt(probe[i].head.cl)
               /\ (IsNetUrl(i) /\ probe[i].get.kind = "response" /\ probe[i].get.status = 200) =>
                    rec.fileSizeBytes = probe[i].get.byteLength

\* C1 witness: an answer of two records whose first probe failed in its GET
\* and whose second probe was sized.
C1_Witness ==
  /\ ppc = "responded"
  /\ Len(images) = 2
  /\ probe[1].get.kind = "threw" /\ probe[1].caught
  /\ MarkedUnknown(response.images[1])
  /\ response.images[2].fileSizeBytes > 0

\* C4: a url that is not a data: URI gets one HEAD first; its GET is issued
\* exactly when the HEAD threw, answered another status than 200, or carried
\* no content-length; neither is issued twice; and a GET that throws or
\* answers another status than 200 ends in 0 / "Unknown".
C4_HeadThenGet ==
  \A i \in Probes :
    LET p == probe[i]
    IN /\ p.nHead <= 1 /\ p.nGet <= 1
       /\ ppc # "map" => p.nHead = (IF IsNetUrl(i) THEN 1 ELSE 0)
       /\ ~IsNetUrl(i) => p.nGet = 0
       /\ p.nGet = 1 => p.head.kind # "none"
       /\ p.head.kind # "none" =>
            (p.nGet = 1 <=> (p.head.kind = "threw" \/ p.head.status # 200 \/ ~p.head.hasCL))
       /\ (p.pc = "done" /\ p.nGet = 1 /\ GetFailed(i)) =>
            (p.fileSizeBytes = 0 /\ p.fileSize = "Unknown")

\* C4 witness: a HEAD answered 404, the GET that followed failed, and the
\* record ended unknown.
C4_Witness ==
  \E i \in Probes :
    /\ probe[i].pc = "done"
    /\ probe[i].head.kind = "response" /\ probe[i].head.status = 404
    /\ probe[i].nHead = 1 /\ probe[i].nGet = 1
    /\ GetFailed(i)
    /\ probe[i].fileSize = "Unknown"

\* C5: 0 bytes renders "Unknown", a byte count of 1,048,576 and above renders
\* in MB, a non-zero byte count below renders in KB.
C5_SizeDisplay ==
  \A i \in Probes :
    probe[i].pc = "done" =>
      LET b == probe[i].fileSizeBytes
      IN /\ b = 0 => probe[i].fileSize = "Unknown"
         /\ b >= MB => probe[i].fileSize = ToFixed2(b, MB) \o " MB"
         /\ (b > 0 /\ b < MB) => probe[i].fileSize = ToFixed2(b, 1024) \o " KB"

\* C6: fileSizeBytes is a non-negative integer and is 0 exactly when the size
\* could not be determined; a HEAD or GET answered 200 with a size never
\* yields 0 / "Unknown".
C6_ZeroIffFailed ==
  \A i \in Probes :
    probe[i].pc = "done" =>
      /\ probe[i].fileSizeBytes >= 0
      /\ probe[i].fileSizeBytes = 0 <=> ProbeFailed(i)

====
